---- MODULE Spec2Model ----
(***************************************************************************)
(* Hybrid PDF text extraction (src/main.py): the per-page choice between   *)
(* the native text layer and OCR, field extraction (rule driven and        *)
(* auto-discovery), table extraction with its fallback settings, and the   *)
(* /extract_text endpoint that drives them.                                *)
(*                                                                         *)
(* Text is a sequence of one-character strings.  An Optional[...] value of *)
(* the program is a record [none, val].  The document layout provider      *)
(* (pdfplumber), the renderer (pdf2image) and the OCR engine (pytesseract) *)
(* are the environment: what they answer for a document is data chosen in  *)
(* the initial state.                                                      *)
(***************************************************************************)
EXTENDS Integers, Sequences, FiniteSets, TLC

\* ------------------------------------------------------------ bounds
MaxPages == 3
MaxLines == 2
MaxRules == 2
MaxRows == 2
MaxTables == 1
MaxAttachments == 2

\* ------------------------------------------------------------ values
NL == "\n"
SP == " "
COLON == ":"

Digits == <<"0", "1", "2", "3", "4", "5", "6", "7", "8", "9">>

None == [none |-> TRUE, val |-> <<>>]
Some(v) == [none |-> FALSE, val |-> v]

\* Python truthiness of an Optional str / list: neither None nor empty.
Truthy(o) == ~o.none /\ o.val # <<>>

\* Python truthiness of an Optional dict (a function here).
TruthyDict(o) == ~o.none /\ DOMAIN o.val # {}

SetMin(S) == CHOOSE x \in S : \A y \in S : x <= y
SetMax(S) == CHOOSE x \in S : \A y \in S : x >= y

\* The whitespace of str.strip() and of the pattern class \s, on the alphabet
\* of the model.
IsSpace(c) == c \in {SP, NL}

\* str.strip()
Strip(s) ==
    LET keep == {k \in 1..Len(s) : ~IsSpace(s[k])}
    IN IF keep = {} THEN <<>> ELSE SubSeq(s, SetMin(keep), SetMax(keep))

UpperLetters ==
    <<"A", "B", "C", "D", "E", "F", "G", "H", "I", "J", "K", "L", "M",
      "N", "O", "P", "Q", "R", "S", "T", "U", "V", "W", "X", "Y", "Z">>
LowerLetters ==
    <<"a", "b", "c", "d", "e", "f", "g", "h", "i", "j", "k", "l", "m",
      "n", "o", "p", "q", "r", "s", "t", "u", "v", "w", "x", "y", "z">>

\* str.lower(), one character
LowerChar(c) ==
    IF \E n \in 1..Len(UpperLetters) : UpperLetters[n] = c
    THEN LowerLetters[CHOOSE n \in 1..Len(UpperLetters) : UpperLetters[n] = c]
    ELSE c

\* str.lower()
Lower(s) == [k \in 1..Len(s) |-> LowerChar(s[k])]

\* str.replace('\n', ' ')
ReplaceNL(s) == [k \in 1..Len(s) |-> IF s[k] = NL THEN SP ELSE s[k]]

RECURSIVE Flatten(_)
Flatten(ss) == IF ss = <<>> THEN <<>> ELSE Head(ss) \o Flatten(Tail(ss))

\* "\n".join(ts)
RECURSIVE JoinNL(_)
JoinNL(ts) ==
    IF ts = <<>> THEN <<>>
    ELSE IF Len(ts) = 1 THEN ts[1]
         ELSE ts[1] \o <<NL>> \o JoinNL(Tail(ts))

RECURSIVE Rep(_, _)
Rep(c, n) == IF n = 0 THEN <<>> ELSE <<c>> \o Rep(c, n - 1)

\* ------------------------------------------------------------ pages
\* Lines 65-72: the OCR branch for the page at 0-based index idx.  A page of
\* the environment is [native, render, ocr]: the native layer's text, what
\* convert_from_bytes does ("raises", "empty": no image, "image") and what
\* image_to_string does (ocr.raises, or ocr.text).
OcrAttemptedAlways(page, ocrAvailable, bytesTruthy) ==
    ocrAvailable /\ bytesTruthy

OcrAttempted(page, ocrAvailable, bytesTruthy) ==
    ~Truthy(page.native) /\ ocrAvailable /\ bytesTruthy

\* The render or the OCR step of the page raises.
OcrRaises(page, ocrAvailable, bytesTruthy) ==
    /\ OcrAttempted(page, ocrAvailable, bytesTruthy)
    /\ \/ page.render = "raises"
       \/ page.render = "image" /\ page.ocr.raises

\* Where the branch raises: in convert_from_bytes or in image_to_string.
RaiseSite(page) == IF page.render = "raises" THEN "render" ELSE "ocr"

\* Lines 66-70: the calls inside the try of the branch.
TryCovers == {"render", "ocr"}

OcrEscapesRender(page, ocrAvailable, bytesTruthy) ==
    /\ OcrRaises(page, ocrAvailable, bytesTruthy)
    /\ RaiseSite(page) = "render"

\* Lines 66-72: an exception of the branch leaves the page loop.  "except
\* Exception" takes whatever the calls inside the try raise.
OcrEscapes(page, ocrAvailable, bytesTruthy) ==
    /\ OcrRaises(page, ocrAvailable, bytesTruthy)
    /\ RaiseSite(page) \notin TryCovers

\* The rendering requests of one page: [first_page, last_page] of line 68.
RenderRequests(page, idx, ocrAvailable, bytesTruthy) ==
    IF OcrAttempted(page, ocrAvailable, bytesTruthy)
    THEN << [first_page |-> idx + 1, last_page |-> idx + 1] >>
    ELSE <<>>

\* Whether image_to_string is called (line 70): an image came back.
OcrCalled(page, ocrAvailable, bytesTruthy) ==
    OcrAttempted(page, ocrAvailable, bytesTruthy) /\ page.render = "image"

\* page_text after lines 62-72.
ResolvePage(page, ocrAvailable, bytesTruthy) ==
    IF OcrCalled(page, ocrAvailable, bytesTruthy) /\ ~page.ocr.raises
    THEN Some(page.ocr.text)
    ELSE page.native

ContributionAlways(page_text) == page_text.val \o <<NL>>

\* Lines 74-75: what one page adds to all_text.
Contribution(page_text) ==
    IF Truthy(page_text) THEN page_text.val \o <<NL>> ELSE <<>>

\* ------------------------------------------------------------ dicts
\* A Python dict with insertion order: a sequence of [k, v] with distinct k.
DictKeys(d) == {d[n].k : n \in 1..Len(d)}

\* d[key] = value: an existing key keeps its place and takes the new value.
DictSet(d, key, value) ==
    IF key \in DictKeys(d)
    THEN [n \in 1..Len(d) |-> IF d[n].k = key THEN [k |-> key, v |-> value] ELSE d[n]]
    ELSE Append(d, [k |-> key, v |-> value])

\* ------------------------------------------------------------ rule driven fields
\* A caller's pattern, from the class  lit | lit(c*) | lit(c+) | lit(c)? :
\* [valid, lit, grp, cls], lit a non-empty literal, grp in "none", "star",
\* "plus", "opt", cls the characters c stands for.  valid = FALSE is a
\* pattern re cannot compile.

\* re.IGNORECASE: the literal lit matches text at position p.
LitAt(text, lit, p) ==
    /\ p + Len(lit) - 1 <= Len(text)
    /\ \A n \in 1..Len(lit) : LowerChar(text[p + n - 1]) = LowerChar(lit[n])

InClass(text, q, cls) == q <= Len(text) /\ LowerChar(text[q]) \in cls

\* The end (exclusive) of the longest run of cls characters from q: greedy.
RunStop(text, q, cls) ==
    SetMin({r \in q..(Len(text) + 1) : ~InClass(text, r, cls)})

\* The positions where the whole pattern matches.
MatchStarts(pat, text) ==
    {p \in 1..Len(text) :
        /\ LitAt(text, pat.lit, p)
        /\ pat.grp = "plus" => InClass(text, p + Len(pat.lit), pat.cls)}

\* re.search(pattern, text, re.IGNORECASE | re.MULTILINE) for a valid
\* pattern: the leftmost match, as [found, groups, g0, g1].  groups is
\* bool(match.groups()); g1 is None when group 1 took no part in the match.
Search(pat, text) ==
    LET starts == MatchStarts(pat, text)
    IN IF starts = {}
       THEN [found |-> FALSE, groups |-> FALSE, g0 |-> <<>>, g1 |-> None]
       ELSE LET p == SetMin(starts)
                q == p + Len(pat.lit)
                stop == RunStop(text, q, pat.cls)
            IN CASE pat.grp = "none" ->
                      [found |-> TRUE, groups |-> FALSE,
                       g0 |-> SubSeq(text, p, q - 1), g1 |-> None]
                 [] pat.grp \in {"star", "plus"} ->
                      [found |-> TRUE, groups |-> TRUE,
                       g0 |-> SubSeq(text, p, stop - 1),
                       g1 |-> Some(SubSeq(text, q, stop - 1))]
                 [] OTHER ->
                      IF InClass(text, q, pat.cls)
                      THEN [found |-> TRUE, groups |-> TRUE,
                            g0 |-> SubSeq(text, p, q), g1 |-> Some(<<text[q]>>)]
                      ELSE [found |-> TRUE, groups |-> TRUE,
                            g0 |-> SubSeq(text, p, q - 1), g1 |-> None]

\* Line 90: the exception the value expression raises, or "".
ValueRaises(m) == IF m.groups /\ m.g1.none THEN "AttributeError" ELSE ""

\* Line 90: match.group(1).strip() if match.groups() else match.group(0).strip()
MatchValue(m) == IF m.groups THEN Strip(m.g1.val) ELSE Strip(m.g0)

\* Lines 87-91: the loop over rules.items(), from the fields so far.  The
\* result is [fields, exc]; exc names the exception that left the loop.
RECURSIVE RuleLoop(_, _, _)
RuleLoop(items, text, fields) ==
    IF items = <<>> THEN [fields |-> fields, exc |-> ""]
    ELSE LET key == Head(items).k
             pat == Head(items).v
         IN IF ~pat.valid THEN [fields |-> fields, exc |-> "re.error"]
            ELSE LET m == Search(pat, text)
                 IN IF ~m.found THEN RuleLoop(Tail(items), text, fields)
                    ELSE IF ValueRaises(m) # ""
                         THEN [fields |-> fields, exc |-> ValueRaises(m)]
                         ELSE RuleLoop(Tail(items), text,
                                       DictSet(fields, key, MatchValue(m)))

\* ------------------------------------------------------------ auto-discovery
\* GENERIC_PATTERN = ^([^:\n]+):\s*(.+)$ with re.MULTILINE.

\* ^ under re.MULTILINE
LineStart(text, p) == p = 1 \/ text[p - 1] = NL

\* The end (exclusive) of [^:\n]+ from p: the run cannot give a character
\* back, each of its characters being no colon.
KeyStop(text, p) ==
    SetMin({q \in p..(Len(text) + 1) : q = Len(text) + 1 \/ text[q] \in {COLON, NL}})

\* The end (exclusive) of the longest \s* from q; \s takes line breaks too.
SpaceStop(text, q) ==
    SetMin({r \in q..(Len(text) + 1) : r = Len(text) + 1 \/ ~IsSpace(text[r])})

\* Where (.+) may start: \s* gives back until a character other than a line
\* break follows.
ValueStarts(text, q) ==
    {v \in q..SpaceStop(text, q) : v <= Len(text) /\ text[v] # NL}

\* The end (inclusive) of the line holding position v: (.+)$ runs to it.
LineEnd(text, v) ==
    SetMin({r \in v..(Len(text) + 1) : r = Len(text) + 1 \/ text[r] = NL}) - 1

\* GENERIC_PATTERN matches at p.
GenericMatchAt(text, p) ==
    /\ LineStart(text, p)
    /\ KeyStop(text, p) > p
    /\ KeyStop(text, p) <= Len(text)
    /\ text[KeyStop(text, p)] = COLON
    /\ ValueStarts(text, KeyStop(text, p) + 1) # {}

\* The match at p: group 1, group 2 and the end (inclusive) of the match.
GenericMatch(text, p) ==
    LET c == KeyStop(text, p)
        v == SetMax(ValueStarts(text, c + 1))
    IN [g1 |-> SubSeq(text, p, c - 1),
        g2 |-> SubSeq(text, v, LineEnd(text, v)),
        end |-> LineEnd(text, v)]

KeyLenLimit == 50

\* Lines 96-99: one match of finditer.
Discover(fields, m) ==
    LET key == Strip(m.g1)
        value == Strip(m.g2)
    IN IF Len(key) < KeyLenLimit /\ Len(value) > 0
       THEN DictSet(fields, key, value)
       ELSE fields

\* Lines 94-99: GENERIC_PATTERN.finditer(text) from position p on (matches do
\* not overlap: the scan goes on after the end of each).
RECURSIVE AutoDiscover(_, _, _)
AutoDiscover(text, p, fields) ==
    IF p > Len(text) THEN fields
    ELSE IF GenericMatchAt(text, p)
         THEN LET m == GenericMatch(text, p)
              IN AutoDiscover(text, m.end + 1, Discover(fields, m))
         ELSE AutoDiscover(text, p + 1, fields)

\* Lines 85-99: text_fields and the exception raised, if any.
ExtractFields(text, rules) ==
    IF TruthyDict(rules)
    THEN RuleLoop(rules.val, text, <<>>)
    ELSE [fields |-> AutoDiscover(text, 1, <<>>), exc |-> ""]

\* ------------------------------------------------------------ tables
\* A raw table is a sequence of rows, a row a sequence of cells, a cell an
\* Optional text.

\* Lines 106-111: fallback_settings after update(table_settings).  The
\* defaults as a function; a caller's key overrides the default.
\* A settings value is a str or an int: [str, num], one of them in use.
Str(x) == [str |-> x, num |-> 0]
Num(x) == [str |-> "", num |-> x]

FallbackDefaults ==
    [key \in {"vertical_strategy", "horizontal_strategy", "intersection_y_tolerance"} |->
        IF key = "intersection_y_tolerance" THEN Num(10) ELSE Str("text")]

\* dict.update
DictUpdate(base, other) ==
    [key \in DOMAIN base \cup DOMAIN other |->
        IF key \in DOMAIN other THEN other[key] ELSE base[key]]

FallbackSettingsDefaultsWin(table_settings) == DictUpdate(table_settings, FallbackDefaults)

FallbackSettings(table_settings) == DictUpdate(FallbackDefaults, table_settings)

\* Line 105: the fallback call is made.
NeedsFallback(primary) == primary = <<>>

\* Lines 103-112: the calls of first_page.extract_tables, as the settings each
\* was given, and the tables the loop of line 115 goes over.  provider is what
\* the layout provider answers: [primary, fallback].
TableCalls(table_settings, provider) ==
    IF ~TruthyDict(table_settings) THEN <<>>
    ELSE IF NeedsFallback(provider.primary)
         THEN <<table_settings.val, FallbackSettings(table_settings.val)>>
         ELSE <<table_settings.val>>

FoundTables(table_settings, provider) ==
    IF ~TruthyDict(table_settings) THEN <<>>
    ELSE IF NeedsFallback(provider.primary) THEN provider.fallback
         ELSE provider.primary

\* f"col_{j}"
ColName(j) == <<"c", "o", "l", "_", Digits[j + 1]>>

\* Line 117: the header names of table[0]; j counts from 0.
Headers(row) ==
    [n \in 1..Len(row) |->
        IF Truthy(row[n]) THEN Lower(Strip(ReplaceNL(row[n].val))) ELSE ColName(n - 1)]

\* Line 124
CleanCell(cell) == IF Truthy(cell) THEN Strip(ReplaceNL(cell.val)) ELSE <<>>

\* any(row), line 121
AnyCell(row) == \E n \in 1..Len(row) : Truthy(row[n])

\* Lines 122-125: row_dict, from cell n on.
RECURSIVE RowDict(_, _, _, _)
RowDict(headers, row, n, d) ==
    IF n > Len(row) THEN d
    ELSE RowDict(headers, row, n + 1,
                 IF n <= Len(headers) THEN DictSet(d, headers[n], CleanCell(row[n])) ELSE d)

\* any(row_dict.values()), line 126
AnyValue(d) == \E n \in 1..Len(d) : d[n].v # <<>>

\* Line 126: the row is kept.
KeepRow(row_dict) == AnyValue(row_dict)

\* Lines 119-127: table_data of the rows after the header.
RECURSIVE TableData(_, _)
TableData(headers, rows) ==
    IF rows = <<>> THEN <<>>
    ELSE LET row == Head(rows)
             rest == TableData(headers, Tail(rows))
             row_dict == RowDict(headers, row, 1, <<>>)
         IN IF ~AnyCell(row) THEN rest
            ELSE IF KeepRow(row_dict) THEN <<row_dict>> \o rest
                 ELSE rest

\* Line 116: the table has a header row and rows after it.
HasHeader(table) == Len(table) > 1

\* Lines 116-131: what one table appends to extracted_data["tables"].  An
\* entry is [verbatim, rows]: the row dicts of table_data, or the raw table
\* itself (verbatim) from the else branch of line 130.
TableEntries(table) ==
    IF HasHeader(table)
    THEN LET table_data == TableData(Headers(table[1]), Tail(table))
         IN IF table_data # <<>>
            THEN << [verbatim |-> FALSE, rows |-> table_data] >>
            ELSE <<>>
    ELSE << [verbatim |-> TRUE, rows |-> table] >>

\* Lines 114-131
RECURSIVE TableRecords(_)
TableRecords(tables) ==
    IF tables = <<>> THEN <<>>
    ELSE TableEntries(Head(tables)) \o TableRecords(Tail(tables))

\* Lines 102-131
ExtractTables(table_settings, provider) ==
    TableRecords(FoundTables(table_settings, provider))

\* ------------------------------------------------------------ endpoint helpers
\* "pdf" in s  /  s.endswith(".pdf")
Contains(s, sub) ==
    \E p \in 1..(Len(s) + 1) :
        /\ p + Len(sub) - 1 <= Len(s)
        /\ SubSeq(s, p, p + Len(sub) - 1) = sub

EndsWith(s, suffix) ==
    /\ Len(suffix) <= Len(s)
    /\ SubSeq(s, Len(s) - Len(suffix) + 1, Len(s)) = suffix

\* Lines 176-183: is_pdf.  contentBytes is [kind, pages]; its kind "empty" is
\* the empty string.
IsPdf(attachment) ==
    IF Truthy(attachment.contentType)
       /\ Contains(Lower(attachment.contentType.val), <<"p", "d", "f">>)
    THEN TRUE
    ELSE IF Truthy(attachment.name)
            /\ EndsWith(Lower(attachment.name.val), <<".", "p", "d", "f">>)
         THEN TRUE
         ELSE /\ ~Truthy(attachment.name)
              /\ ~Truthy(attachment.contentType)
              /\ attachment.contentBytes.kind # "empty"

\* Lines 163-172: the attachments of a payload.
Attachments(p) ==
    IF p.shape = "single"
    THEN << [name |-> None, contentType |-> Some(p.ContentType),
             contentBytes |-> p.contentBytes] >>
    ELSE p.value

\* Line 191: the rules and table settings process_single_pdf is called with
\* (the defaults of line 135).
PassedRulesOfPayload(p) == p.extraction_rules

PassedRules(p) == None
PassedSettings(p) == None

\* Lines 136-148: how far process_single_pdf gets with contentBytes before
\* parse_pdf_content: b64decode raises ("decode_error"), pdfplumber.open
\* raises ("open_error"), the document has no pages ("no_pages"), or
\* parse_pdf_content is called ("parse").
ProcessOutcomeNoPageCheck(content) ==
    CASE content.kind = "bad_base64" -> "decode_error"
      [] content.kind \in {"empty", "not_pdf"} -> "open_error"
      [] OTHER -> "parse"

ProcessOutcome(content) ==
    CASE content.kind = "bad_base64" -> "decode_error"
      [] content.kind \in {"empty", "not_pdf"} -> "open_error"
      [] content.kind = "pdf" /\ content.pages = <<>> -> "no_pages"
      [] OTHER -> "parse"

\* A response text that is an error marker is a one-element sequence holding
\* the message; an extracted text is a sequence of characters.
ErrorMarker(cause) == << "Error: " \o cause >>

\* Lines 144, 152: data["error"] of an outcome other than "parse".
ErrorCause(outcome) ==
    CASE outcome = "no_pages" -> "PDF has no pages"
      [] outcome = "decode_error" -> "Incorrect padding"
      [] OTHER -> "No /Root object! - Is this really a PDF?"

AppendErrorAborting(rs, cause) == << [raw_text |-> ErrorMarker(cause)] >>

\* Lines 194, 199: the result appended for an item that failed.
AppendError(rs, cause) == Append(rs, [raw_text |-> ErrorMarker(cause)])

\* Line 197
AppendText(rs, raw_text) == Append(rs, [raw_text |-> Strip(raw_text)])

\* Lines 202-205
ResponseOf(p, rs) ==
    IF p.shape = "single" /\ Len(rs) = 1
    THEN [single |-> TRUE, items |-> rs]
    ELSE [single |-> FALSE, items |-> rs]

\* ------------------------------------------------------------ state
VARIABLES
    OCR_AVAILABLE,   \* line 12/14
    payload,         \* the request body of extract_text
    epc,             \* extract_text: "direct" (no request: parse_pdf_content is
                     \* called as a function), "loop", "call", "responded"
    k,               \* attachments handled so far
    results,         \* line 159
    response,        \* what extract_text returned
    calls,           \* the calls of process_single_pdf: [item, rules, table_settings, outcome]
    pdf,             \* pdf.pages: the pages of the environment
    pdf_bytes,       \* truthiness of pdf_bytes
    rules,
    table_settings,
    provider,        \* what first_page.extract_tables answers: [primary, fallback]
    pc,              \* parse_pdf_content: "idle", "pages", "tables", "done", "raised"
    i,               \* pages handled so far
    all_text,
    resolved,        \* page_text of each page handled, at line 74
    renders,         \* the convert_from_bytes requests so far: [at, first_page,
                     \* last_page], at the 0-based index of the page in the loop
    ocr_calls,       \* the pages (1-based) image_to_string was called for
    extracted_data,
    extract_calls,   \* the settings of each extract_tables call
    exc              \* the exception that left parse_pdf_content, or ""

envVars == <<OCR_AVAILABLE, payload>>
endpointVars == <<epc, k, results, response, calls>>
inputVars == <<pdf, pdf_bytes, rules, table_settings, provider>>
parseVars == <<pc, i, all_text, resolved, renders, ocr_calls, extracted_data, extract_calls, exc>>
vars == <<envVars, endpointVars, inputVars, parseVars>>

EmptyData == [text_fields |-> <<>>, tables |-> <<>>, raw_text |-> <<>>]
NoProvider == [primary |-> <<>>, fallback |-> <<>>]
NoPayload == [shape |-> "list", value |-> <<>>, extraction_rules |-> None,
              table_settings |-> None]

\* Lines 54-60: the locals of parse_pdf_content at its entry.
ParseEntry ==
    /\ pc = "pages"
    /\ i = 0
    /\ all_text = <<>>
    /\ resolved = <<>>
    /\ renders = <<>>
    /\ ocr_calls = <<>>
    /\ extracted_data = EmptyData
    /\ extract_calls = <<>>
    /\ exc = ""

\* ------------------------------------------------------------ parse_pdf_content
\* Lines 61-75: one round of the page loop.
ResolvePageStep ==
    /\ pc = "pages"
    /\ i < Len(pdf)
    /\ LET page == pdf[i + 1]
           page_text == ResolvePage(page, OCR_AVAILABLE, pdf_bytes)
           requests == RenderRequests(page, i, OCR_AVAILABLE, pdf_bytes)
       IN /\ renders' = renders \o [n \in 1..Len(requests) |->
                                        [at |-> i, first_page |-> requests[n].first_page,
                                         last_page |-> requests[n].last_page]]
          /\ ocr_calls' = IF OcrCalled(page, OCR_AVAILABLE, pdf_bytes)
                          THEN Append(ocr_calls, i + 1) ELSE ocr_calls
          /\ IF OcrEscapes(page, OCR_AVAILABLE, pdf_bytes)
             THEN /\ pc' = "raised"
                  /\ exc' = "OCR"
                  /\ UNCHANGED <<resolved, all_text, i>>
             ELSE /\ resolved' = Append(resolved, page_text)
                  /\ all_text' = all_text \o Contribution(page_text)
                  /\ i' = i + 1
                  /\ UNCHANGED <<pc, exc>>
    /\ UNCHANGED <<envVars, endpointVars, inputVars, extracted_data, extract_calls>>

\* Lines 77-99: raw_text, first_page (IndexError without pages) and the fields.
FieldsStep ==
    /\ pc = "pages"
    /\ i = Len(pdf)
    /\ LET f == ExtractFields(all_text, rules)
       IN IF pdf = <<>>
          THEN /\ exc' = "IndexError"
               /\ pc' = "raised"
               /\ extracted_data' = [extracted_data EXCEPT !.raw_text = all_text]
          ELSE /\ exc' = f.exc
               /\ pc' = IF f.exc = "" THEN "tables" ELSE "raised"
               /\ extracted_data' = [extracted_data EXCEPT !.raw_text = all_text,
                                                           !.text_fields = f.fields]
    /\ UNCHANGED <<envVars, endpointVars, inputVars, i, all_text, resolved, renders,
                   ocr_calls, extract_calls>>

\* Lines 101-133: the tables, and the return.
TablesStep ==
    /\ pc = "tables"
    /\ extract_calls' = TableCalls(table_settings, provider)
    /\ extracted_data' = [extracted_data EXCEPT !.tables = ExtractTables(table_settings, provider)]
    /\ pc' = "done"
    /\ UNCHANGED <<envVars, endpointVars, inputVars, i, all_text, resolved, renders,
                   ocr_calls, exc>>

\* ------------------------------------------------------------ extract_text
\* Line 148: process_single_pdf calls parse_pdf_content(pdf, pdf_bytes, rules,
\* table_settings).
CallParse(pages, r, ts) ==
    /\ pdf' = pages
    /\ pdf_bytes' = TRUE
    /\ rules' = r
    /\ table_settings' = ts
    /\ pc' = "pages"
    /\ i' = 0
    /\ all_text' = <<>>
    /\ resolved' = <<>>
    /\ renders' = <<>>
    /\ ocr_calls' = <<>>
    /\ extracted_data' = EmptyData
    /\ extract_calls' = <<>>
    /\ exc' = ""

\* Lines 174-199, one attachment: is_pdf, and process_single_pdf up to its
\* call of parse_pdf_content.
NextAttachment ==
    /\ epc = "loop"
    /\ k < Len(Attachments(payload))
    /\ LET attachment == Attachments(payload)[k + 1]
           outcome == ProcessOutcome(attachment.contentBytes)
           r == PassedRules(payload)
           ts == PassedSettings(payload)
       IN IF ~IsPdf(attachment)
          THEN /\ results' = AppendError(results, "Not a PDF")
               /\ k' = k + 1
               /\ UNCHANGED <<epc, calls, inputVars, parseVars>>
          ELSE /\ calls' = Append(calls, [item |-> k + 1, rules |-> r,
                                          table_settings |-> ts, outcome |-> outcome])
               /\ IF outcome = "parse"
                  THEN /\ CallParse(attachment.contentBytes.pages, r, ts)
                       /\ epc' = "call"
                       /\ UNCHANGED <<k, results, provider>>
                  ELSE /\ results' = AppendError(results, ErrorCause(outcome))
                       /\ k' = k + 1
                       /\ UNCHANGED <<epc, inputVars, parseVars>>
    /\ UNCHANGED <<envVars, response>>

\* Lines 150-152 and 193-197: parse_pdf_content returned or raised.
Return ==
    /\ epc = "call"
    /\ pc \in {"done", "raised"}
    /\ results' = IF pc = "done"
                  THEN AppendText(results, extracted_data.raw_text)
                  ELSE AppendError(results, exc)
    /\ k' = k + 1
    /\ epc' = "loop"
    /\ pc' = "idle"
    /\ UNCHANGED <<envVars, response, calls, inputVars, i, all_text, resolved, renders,
                   ocr_calls, extracted_data, extract_calls, exc>>

\* Lines 202-205
Respond ==
    /\ epc = "loop"
    /\ k = Len(Attachments(payload))
    /\ response' = ResponseOf(payload, results)
    /\ epc' = "responded"
    /\ UNCHANGED <<envVars, k, results, calls, inputVars, parseVars>>

\* ------------------------------------------------------------ inputs
SeqsUpTo(S, n) == UNION {[1..m -> S] : m \in 0..n}

NativeTexts == {None, Some(<<>>), Some(<<"a">>)}

\* What the renderer and the OCR engine do for a page.
OcrOutcomes ==
    {[render |-> "raises", ocr |-> [raises |-> FALSE, text |-> <<>>]],
     [render |-> "empty",  ocr |-> [raises |-> FALSE, text |-> <<>>]],
     [render |-> "image",  ocr |-> [raises |-> TRUE,  text |-> <<>>]],
     [render |-> "image",  ocr |-> [raises |-> FALSE, text |-> <<>>]],
     [render |-> "image",  ocr |-> [raises |-> FALSE, text |-> <<"b">>]]}

Pages == {[native |-> t, render |-> o.render, ocr |-> o.ocr] : t \in NativeTexts, o \in OcrOutcomes}

TextPage(t) == [native |-> Some(t), render |-> "image", ocr |-> [raises |-> FALSE, text |-> <<>>]]

\* parse_pdf_content called as a function, its arguments from the given sets.
InitDirect(docs, ocrFlags, byteFlags, ruleSets, settingSets, providers) ==
    /\ OCR_AVAILABLE \in ocrFlags
    /\ payload = NoPayload
    /\ epc = "direct"
    /\ k = 0
    /\ results = <<>>
    /\ response = [single |-> FALSE, items |-> <<>>]
    /\ calls = <<>>
    /\ pdf \in docs
    /\ pdf_bytes \in byteFlags
    /\ rules \in ruleSets
    /\ table_settings \in settingSets
    /\ provider \in providers
    /\ ParseEntry

\* Every document of up to MaxPages pages, no rules, no table settings.
Init == InitDirect(SeqsUpTo(Pages, MaxPages), BOOLEAN, BOOLEAN, {None}, {None}, {NoProvider})

Next == ResolvePageStep \/ FieldsStep \/ TablesStep

Spec == Init /\ [][Next]_vars

\* -- fields: one page of native text, OCR not installed.
LongKey == Rep("k", KeyLenLimit)

LineVocab ==
    {<<"A", ":", " ", "x">>,
     <<"A", ":", " ", "y">>,
     <<"B", ":">>,
     <<"x">>,
     <<"B", ":", " ", "c", ":", "d">>,
     LongKey \o <<":", " ", "v">>,
     Tail(LongKey) \o <<":", " ", "w">>}

FieldTexts == {JoinNL(ls) : ls \in SeqsUpTo(LineVocab, MaxLines)}

\* A:   B:( *)   : ([xy]+)   B:(c)?   zz   and a pattern that does not compile
PatternVocab ==
    {[valid |-> TRUE, lit |-> <<"a", ":">>, grp |-> "none", cls |-> {}],
     [valid |-> TRUE, lit |-> <<"B", ":">>, grp |-> "star", cls |-> {" "}],
     [valid |-> TRUE, lit |-> <<":", " ">>, grp |-> "plus", cls |-> {"x", "y"}],
     [valid |-> TRUE, lit |-> <<"B", ":">>, grp |-> "opt", cls |-> {"c"}],
     [valid |-> TRUE, lit |-> <<"z", "z">>, grp |-> "none", cls |-> {}],
     [valid |-> FALSE, lit |-> <<"(">>, grp |-> "none", cls |-> {}]}

\* The n-th rule of a rule set has the key "k<n>".
RuleKey(n) == <<"k", Digits[n + 1]>>
RuleSets ==
    {[n \in 1..Len(ps) |-> [k |-> RuleKey(n), v |-> ps[n]]] : ps \in SeqsUpTo(PatternVocab, MaxRules)}

InitFields ==
    InitDirect({<<TextPage(t)>> : t \in FieldTexts}, {FALSE}, {TRUE},
               {None} \cup {Some(rs) : rs \in RuleSets}, {None}, {NoProvider})

SpecFields == InitFields /\ [][Next]_vars

\* -- tables: the raw tables the layout provider may answer.
RowVocab ==
    {<<>>,
     <<Some(<<"A">>), None>>,
     <<None, None>>,
     <<Some(<<"b">>), Some(<<" ">>)>>,
     <<Some(<<" ">>), None>>,
     <<Some(<<"b", NL, "c">>), None, Some(<<"c">>)>>}

RawTables == SeqsUpTo(RowVocab, MaxRows)
TableLists == SeqsUpTo(RawTables, MaxTables)

LinesSettings == [key \in {"vertical_strategy"} |-> Str("lines")]

InitTables ==
    InitDirect({<<TextPage(<<"a">>)>>}, {FALSE}, {TRUE}, {None}, {Some(LinesSettings)},
               {[primary |-> l, fallback |-> <<>>] : l \in TableLists}
                   \cup {[primary |-> <<>>, fallback |-> l] : l \in TableLists})

SpecTables == InitTables /\ [][Next]_vars

\* -- table settings: every dict over three keys, one of them without a
\* fallback default.
SettingValues(key) ==
    CASE key = "vertical_strategy" -> {Str("lines"), Str("text")}
      [] key = "intersection_y_tolerance" -> {Num(3), Num(10)}
      [] OTHER -> {Num(5)}

SettingDicts ==
    UNION {{d \in [keys -> {Str("lines"), Str("text"), Num(3), Num(5), Num(10)}] :
                \A key \in keys : d[key] \in SettingValues(key)} :
           keys \in SUBSET {"vertical_strategy", "intersection_y_tolerance", "snap_tolerance"}}

InitSettings ==
    InitDirect({<<TextPage(<<"a">>)>>}, {FALSE}, {TRUE}, {None},
               {None} \cup {Some(d) : d \in SettingDicts},
               {[primary |-> a, fallback |-> b] :
                    a \in {<<>>, << <<<<Some(<<"A">>)>>, <<Some(<<"b">>)>>>> >>},
                    b \in {<<>>, << <<<<Some(<<"b">>)>>>> >>}})

SpecSettings == InitSettings /\ [][Next]_vars

\* -- requests
DocA == <<TextPage(<<"a", " ">>)>>
DocScan ==
    <<[native |-> None, render |-> "image", ocr |-> [raises |-> TRUE, text |-> <<>>]],
      [native |-> Some(<<>>), render |-> "image", ocr |-> [raises |-> FALSE, text |-> <<"b">>]]>>

Content(kind, pages) == [kind |-> kind, pages |-> pages]

PdfType == <<"x", "/", "P", "d", "f">>
TextType == <<"t", "e", "x", "t">>

AttachmentVocab ==
    {[name |-> None, contentType |-> None, contentBytes |-> Content("pdf", DocA)],
     [name |-> None, contentType |-> Some(PdfType), contentBytes |-> Content("pdf", <<>>)],
     [name |-> Some(<<"a", ".", "P", "D", "F">>), contentType |-> Some(TextType),
      contentBytes |-> Content("pdf", DocScan)],
     [name |-> Some(<<"a", ".", "t", "x", "t">>), contentType |-> None,
      contentBytes |-> Content("pdf", DocA)],
     [name |-> None, contentType |-> Some(PdfType), contentBytes |-> Content("bad_base64", <<>>)],
     [name |-> None, contentType |-> Some(PdfType), contentBytes |-> Content("not_pdf", <<>>)],
     [name |-> None, contentType |-> None, contentBytes |-> Content("empty", <<>>)],
     [name |-> None, contentType |-> Some(TextType), contentBytes |-> Content("pdf", DocA)]}

PayloadRules ==
    {None, Some(<<[k |-> RuleKey(1),
                   v |-> [valid |-> FALSE, lit |-> <<"(">>, grp |-> "none", cls |-> {}]]>>)}
PayloadSettings == {None, Some(LinesSettings)}

Payloads ==
    {[shape |-> "list", value |-> v, ContentType |-> <<>>, contentBytes |-> Content("empty", <<>>),
      extraction_rules |-> None, table_settings |-> None] :
        v \in SeqsUpTo(AttachmentVocab, MaxAttachments)}
    \cup
    {[shape |-> "graph", value |-> v, ContentType |-> <<>>, contentBytes |-> Content("empty", <<>>),
      extraction_rules |-> r, table_settings |-> ts] :
        v \in SeqsUpTo(AttachmentVocab, MaxAttachments), r \in PayloadRules, ts \in PayloadSettings}
    \cup
    {[shape |-> "single", value |-> <<>>, ContentType |-> ct, contentBytes |-> c,
      extraction_rules |-> r, table_settings |-> ts] :
        ct \in {PdfType, TextType},
        c \in {Content("pdf", DocA), Content("pdf", <<>>), Content("not_pdf", <<>>)},
        r \in PayloadRules, ts \in PayloadSettings}

\* A request arrives at extract_text; nothing has been parsed.
InitEndpoint ==
    /\ OCR_AVAILABLE \in BOOLEAN
    /\ payload \in Payloads
    /\ epc = "loop"
    /\ k = 0
    /\ results = <<>>
    /\ response = [single |-> FALSE, items |-> <<>>]
    /\ calls = <<>>
    /\ pdf = <<>>
    /\ pdf_bytes = FALSE
    /\ rules = None
    /\ table_settings = None
    /\ provider = [primary |-> <<>>, fallback |-> << <<<<Some(<<"b">>)>>>> >>]
    /\ pc = "idle"
    /\ i = 0
    /\ all_text = <<>>
    /\ resolved = <<>>
    /\ renders = <<>>
    /\ ocr_calls = <<>>
    /\ extracted_data = EmptyData
    /\ extract_calls = <<>>
    /\ exc = ""

NextEndpoint ==
    NextAttachment \/ ResolvePageStep \/ FieldsStep \/ TablesStep \/ Return \/ Respond

SpecEndpoint == InitEndpoint /\ [][NextEndpoint]_vars

\* ------------------------------------------------------------ properties
\* The text a page should resolve to: its native text, else what OCR read.
ExpectedTextWith(page, bytesTruthy) ==
    IF Truthy(page.native) THEN page.native.val
    ELSE IF OCR_AVAILABLE /\ bytesTruthy /\ page.render = "image" /\ ~page.ocr.raises
         THEN page.ocr.text
         ELSE <<>>

ExpectedText(page) == ExpectedTextWith(page, pdf_bytes)

TextOf(o) == IF o.none THEN <<>> ELSE o.val

RECURSIVE NonEmpty(_)
NonEmpty(ts) ==
    IF ts = <<>> THEN <<>>
    ELSE IF Head(ts) = <<>> THEN NonEmpty(Tail(ts))
         ELSE <<Head(ts)>> \o NonEmpty(Tail(ts))

Returned == pc \in {"tables", "done"}

\* C1: OCR (a rendering request, then image_to_string) is attempted for a
\* page only if the page's native text is empty or absent, and every
\* rendering request asks for the single page being resolved: first_page =
\* last_page = its 1-based index.
C1_OcrOnlyWhenNativeEmpty ==
    /\ \A n \in 1..Len(renders) :
          /\ ~Truthy(pdf[renders[n].at + 1].native)
          /\ renders[n].first_page = renders[n].at + 1
          /\ renders[n].last_page = renders[n].at + 1
    /\ \A n \in 1..Len(ocr_calls) : ~Truthy(pdf[ocr_calls[n]].native)
    /\ \A n \in 1..i : Truthy(pdf[n].native) =>
          /\ \A m \in 1..Len(renders) : renders[m].at + 1 # n
          /\ \A m \in 1..Len(ocr_calls) : ocr_calls[m] # n

\* A document whose first page has native text and whose second page went
\* through rendering and OCR.
C1_Witness ==
    /\ pc = "done"
    /\ Len(pdf) >= 2
    /\ Truthy(pdf[1].native)
    /\ renders # <<>>
    /\ renders[1].at = 1
    /\ ocr_calls = <<2>>

\* C2: when the render or OCR step raises for a page without native text,
\* the page resolves to empty text, parse_pdf_content raises nothing, and
\* every later page is still resolved and its text is in raw_text.
C2_OcrFailureIsLocal ==
    \A n \in 1..Len(pdf) :
        (n <= i \/ pc = "raised") /\ OcrRaises(pdf[n], OCR_AVAILABLE, pdf_bytes) =>
            /\ pc # "raised"
            /\ exc = ""
            /\ ~Truthy(resolved[n])
            /\ Returned =>
                  /\ Len(resolved) = Len(pdf)
                  /\ \A m \in (n + 1)..Len(pdf) :
                        /\ TextOf(resolved[m]) = ExpectedText(pdf[m])
                        /\ Truthy(pdf[m].native) \/ ~OCR_AVAILABLE \/ ~pdf_bytes
                              \/ \E r \in 1..Len(renders) : renders[r].at + 1 = m
                        /\ ExpectedText(pdf[m]) # <<>> =>
                              Contains(extracted_data.raw_text, ExpectedText(pdf[m]) \o <<NL>>)

\* OCR raised for the first page, and a later page got its text from OCR.
C2_Witness ==
    /\ pc = "done"
    /\ Len(pdf) >= 2
    /\ OcrRaises(pdf[1], OCR_AVAILABLE, pdf_bytes)
    /\ pdf[1].render = "image"
    /\ OcrRaises(pdf[2], OCR_AVAILABLE, pdf_bytes)
    /\ pdf[2].render = "raises"
    /\ \E m \in 3..Len(pdf) : ocr_calls[Len(ocr_calls)] = m /\ resolved[m] = Some(<<"b">>)

\* C9 as stated: raw_text is the resolved texts of all pages joined with one
\* newline between consecutive pages (compared up to the surrounding
\* whitespace, which the endpoint strips).
C9_Original ==
    pc = "done" =>
        Strip(extracted_data.raw_text) =
            Strip(JoinNL([n \in 1..Len(pdf) |-> ExpectedText(pdf[n])]))

\* C9 amended: raw_text is, in increasing page order, the resolved text of
\* each page that resolved to a non-empty text, each followed by one newline;
\* a page that resolved to empty text adds nothing, and every page is
\* resolved.
C9_Amended ==
    Returned =>
        /\ Len(resolved) = Len(pdf)
        /\ \A n \in 1..Len(pdf) : TextOf(resolved[n]) = ExpectedText(pdf[n])
        /\ LET kept == NonEmpty([n \in 1..Len(pdf) |-> ExpectedText(pdf[n])])
           IN extracted_data.raw_text =
                 IF kept = <<>> THEN <<>> ELSE JoinNL(kept) \o <<NL>>

\* A page that resolved to empty text between two pages with text.
C9_Witness ==
    /\ pc = "done"
    /\ Len(pdf) = 3
    /\ ExpectedText(pdf[1]) # <<>>
    /\ ExpectedText(pdf[2]) = <<>>
    /\ ExpectedText(pdf[3]) # <<>>
    /\ ExpectedText(pdf[1]) # ExpectedText(pdf[3])

\* C3: a document that parses but has no pages gives the error "PDF has no
\* pages" and parse_pdf_content is never called for it.
C3_EmptyDocumentNeverParsed ==
    /\ epc = "call" => pdf # <<>>
    /\ \A n \in 1..Len(calls) :
          LET content == Attachments(payload)[calls[n].item].contentBytes
          IN content.kind = "pdf" /\ content.pages = <<>> =>
                /\ calls[n].outcome = "no_pages"
                /\ Len(results) >= calls[n].item
                /\ results[calls[n].item] = [raw_text |-> <<"Error: PDF has no pages">>]

\* A request with a zero-page document has been answered.
C3_Witness ==
    /\ epc = "responded"
    /\ \E n \in 1..Len(calls) : calls[n].outcome = "no_pages"

\* The text extract_text answers for a document with these pages.
DocText(pages) ==
    LET kept == NonEmpty([n \in 1..Len(pages) |-> ExpectedTextWith(pages[n], TRUE)])
    IN Strip(IF kept = <<>> THEN <<>> ELSE JoinNL(kept) \o <<NL>>)

DecodeErrorItems ==
    {[raw_text |-> <<"Error: Incorrect padding">>],
     [raw_text |-> <<"Error: No /Root object! - Is this really a PDF?">>]}

\* C4: a batch of N attachments is answered with N results in attachment
\* order; an attachment that is no PDF, or whose bytes do not decode or
\* parse, gets its own error marker, and every other attachment gets the
\* text of its own document.
C4_BatchItemsAreIndependent ==
    epc = "responded" /\ payload.shape # "single" =>
        /\ ~response.single
        /\ Len(response.items) = Len(payload.value)
        /\ \A j \in 1..Len(payload.value) :
              LET a == payload.value[j]
                  r == response.items[j]
              IN /\ ~IsPdf(a) => r = [raw_text |-> <<"Error: Not a PDF">>]
                 /\ IsPdf(a) /\ a.contentBytes.kind # "pdf" => r \in DecodeErrorItems
                 /\ IsPdf(a) /\ a.contentBytes.kind = "pdf" /\ a.contentBytes.pages # <<>> =>
                       r.raw_text = DocText(a.contentBytes.pages)

\* A batch whose first item is a scanned PDF read by OCR and whose second
\* item does not decode: the first item's text is in the response.
C4_Witness ==
    /\ epc = "responded"
    /\ payload.shape = "graph"
    /\ Len(payload.value) = 2
    /\ payload.value[1].contentBytes = Content("pdf", DocScan)
    /\ payload.value[2].contentBytes.kind = "bad_base64"
    /\ OCR_AVAILABLE
    /\ response.items[1].raw_text = <<"b">>

\* C5 as stated: every entry of "tables" has a header row and at least one
\* data row holding a non-empty cell.
C5_Original ==
    pc = "done" =>
        \A n \in 1..Len(extracted_data.tables) :
            LET entry == extracted_data.tables[n]
            IN /\ ~entry.verbatim
               /\ \E r \in 1..Len(entry.rows) : AnyValue(entry.rows[r])

\* C6: extract_tables is called with the caller's settings first; the
\* fallback call is made only if that call returned no table; and the
\* fallback settings hold the caller's value for every key the caller set,
\* the default only for the keys the caller did not set.
C6_FallbackOnlyWhenEmpty ==
    pc = "done" =>
        LET n == Len(extract_calls)
        IN /\ n <= 2
           /\ table_settings.none => n = 0
           /\ n >= 1 <=> TruthyDict(table_settings)
           /\ n >= 1 => extract_calls[1] = table_settings.val
           /\ n = 2 <=> (TruthyDict(table_settings) /\ provider.primary = <<>>)
           /\ n >= 1 /\ provider.primary # <<>> => n = 1
           /\ n = 2 =>
                 LET caller == table_settings.val
                     fb == extract_calls[2]
                 IN /\ DOMAIN fb = DOMAIN caller \cup
                          {"vertical_strategy", "horizontal_strategy", "intersection_y_tolerance"}
                    /\ \A key \in DOMAIN caller : fb[key] = caller[key]
                    /\ \A key \in DOMAIN fb \ DOMAIN caller :
                          fb[key] = IF key = "intersection_y_tolerance" THEN Num(10) ELSE Str("text")

\* The fallback call was made with a caller's key that differs from the
\* default, and with a default the caller did not set.
C6_Witness ==
    /\ pc = "done"
    /\ Len(extract_calls) = 2
    /\ "vertical_strategy" \in DOMAIN table_settings.val
    /\ table_settings.val["vertical_strategy"] = Str("lines")
    /\ "intersection_y_tolerance" \notin DOMAIN table_settings.val
    /\ extracted_data.tables # <<>>

\* C7 as stated, for a rule set that is not empty and whose patterns all
\* compile: text_fields holds exactly the rule keys whose pattern matches, no
\* value is empty, and extraction does not fail.
C7_Original ==
    /\ TruthyDict(rules)
    /\ \A n \in 1..Len(rules.val) : rules.val[n].v.valid
    /\ pc \in {"tables", "done", "raised"}
    =>
        /\ pc # "raised"
        /\ DictKeys(extracted_data.text_fields) =
              {rules.val[n].k : n \in {m \in 1..Len(rules.val) :
                                          /\ rules.val[m].v.valid
                                          /\ Search(rules.val[m].v, all_text).found}}
        /\ \A n \in 1..Len(extracted_data.text_fields) :
              extracted_data.text_fields[n].v # <<>>

\* text.split("\n")
RECURSIVE SplitLines(_)
SplitLines(text) ==
    LET breaks == {p \in 1..Len(text) : text[p] = NL}
    IN IF breaks = {} THEN <<text>>
       ELSE <<SubSeq(text, 1, SetMin(breaks) - 1)>>
                \o SplitLines(SubSeq(text, SetMin(breaks) + 1, Len(text)))

FirstColon(line) == SetMin({p \in 1..Len(line) : line[p] = COLON})
LineKey(line) == Strip(SubSeq(line, 1, FirstColon(line) - 1))
LineValue(line) == Strip(SubSeq(line, FirstColon(line) + 1, Len(line)))

\* A line of the shape key: value, with the key before the first colon, a
\* trimmed key shorter than 50 and a trimmed value that is not empty.
AcceptedLine(line) ==
    /\ \E p \in 2..Len(line) : line[p] = COLON /\ FirstColon(line) = p
    /\ Len(LineKey(line)) < KeyLenLimit
    /\ Len(LineValue(line)) > 0

\* C8 as stated: without rules, a key of text_fields comes from an accepted
\* line, its value is that of the last accepted line with the key, and the
\* keys stand in the order of their first accepted lines.
C8_Original ==
    rules.none /\ Returned =>
        LET lines == SplitLines(all_text)
            fields == extracted_data.text_fields
            with(key) == {n \in 1..Len(lines) : AcceptedLine(lines[n]) /\ LineKey(lines[n]) = key}
        IN /\ \A f \in 1..Len(fields) :
                 /\ with(fields[f].k) # {}
                 /\ fields[f].v = LineValue(lines[SetMax(with(fields[f].k))])
           /\ \A f, g \in 1..Len(fields) :
                 f < g => SetMin(with(fields[f].k)) < SetMin(with(fields[g].k))

\* What extract_text answers for one attachment, from the attachment alone.
ExpectedItem(a) ==
    IF ~IsPdf(a) THEN [raw_text |-> <<"Error: Not a PDF">>]
    ELSE CASE a.contentBytes.kind = "bad_base64" -> [raw_text |-> <<"Error: Incorrect padding">>]
           [] a.contentBytes.kind \in {"empty", "not_pdf"} ->
                 [raw_text |-> <<"Error: No /Root object! - Is this really a PDF?">>]
           [] a.contentBytes.kind = "pdf" /\ a.contentBytes.pages = <<>> ->
                 [raw_text |-> <<"Error: PDF has no pages">>]
           [] OTHER -> [raw_text |-> DocText(a.contentBytes.pages)]

\* C10: whatever extraction_rules and table_settings the payload carries,
\* process_single_pdf is called with rules = None and table_settings = None:
\* parse_pdf_content runs without rules, extract_tables is never called, and
\* the response is a function of the attachments alone.
C10_PayloadOptionsNeverReachPipeline ==
    /\ \A n \in 1..Len(calls) : calls[n].rules.none /\ calls[n].table_settings.none
    /\ rules.none
    /\ table_settings.none
    /\ extract_calls = <<>>
    /\ extracted_data.tables = <<>>
    /\ pc # "raised"
    /\ epc = "responded" =>
          response.items = [j \in 1..Len(Attachments(payload)) |->
                                ExpectedItem(Attachments(payload)[j])]

\* A request carrying rules and table settings was answered after a document
\* of it went through parse_pdf_content.
C10_Witness ==
    /\ epc = "responded"
    /\ ~payload.extraction_rules.none
    /\ ~payload.table_settings.none
    /\ \E n \in 1..Len(calls) : calls[n].outcome = "parse"
    /\ pc = "idle"
    /\ extracted_data.raw_text # <<>>

====
